---- MODULE Spec2Model ----
(***************************************************************************)
(* Model of the metadata reconciliation of pkg-upd (crate aer_data):       *)
(* the generic record PackageMetadata, the Chocolatey override record      *)
(* ChocolateyMetadata, and the two DataUpdater operations update_from and  *)
(* reset_same; the constructors and setters of the two records; and the   *)
(* rule engine of crate pkg-upd (validate_metadata and its rules).         *)
(*                                                                         *)
(* Encoding.  A String that the code inspects character-wise (identifiers  *)
(* and tags) is a sequence of one-character strings, so to_lowercase and   *)
(* replace(' ', "-") are computed.  Other strings are TLA+ strings.  An    *)
(* Option<T> is a sequence of length at most one: << >> is None and <<v>>  *)
(* is Some(v).  A Url is held as its serialisation (Url::as_str).  A       *)
(* HashMap is a set of <<key, value>> pairs with unique keys.              *)
(***************************************************************************)
EXTENDS Integers, Sequences, FiniteSets, TLC

VARIABLES
    pkg,      \* the generic record (PackageMetadata) passed to the operations
    choco,    \* the override record (ChocolateyMetadata) the operations mutate
    orig,     \* the override record as first loaded
    pre,      \* the override record at entry of the last operation
    trace,    \* the operations called so far, oldest first
    outcome,  \* "ok", or "panic" once an operation has aborted
    input,    \* the argument of the last constructor, setter or validation call
    result,   \* what that call returned
    disk      \* the work directory generate writes to: its directories and files

vars == <<pkg, choco, orig, pre, trace, outcome, input, result, disk>>

(* ---------------------------- bounds ---------------------------------- *)

\* Number of keys, besides the generic identifier, that the loaded records set.
MaxKeys == 2
\* Longest tags list a loaded override record holds.
MaxTags == 2
\* Number of reconciliation calls in one run.
MaxOps == 2
\* Number of constructor, setter, reconciliation and validation calls a
\* client of the two records makes in one run.
MaxCalls == 3
\* Number of calls made on the override record before it is looked at.
MaxEdits == 2

(* ------------------------- value helpers ------------------------------ *)

None == << >>
Some(v) == <<v>>
IsNone(o) == o = << >>
IsSome(o) == o # << >>
Unwrap(o) == o[1]

Contains(seq, x) == \E i \in 1..Len(seq) : seq[i] = x
Count(seq, x) == Cardinality({i \in 1..Len(seq) : seq[i] = x})
Last(seq) == seq[Len(seq)]

RECURSIVE SeqsUpTo(_, _)
SeqsUpTo(S, n) ==
    IF n = 0 THEN {<< >>}
    ELSE LET shorter == SeqsUpTo(S, n - 1)
         IN  shorter \cup {Append(s, x) : s \in shorter, x \in S}

(* char::to_lowercase on the characters of the model's alphabet *)
LowerChar(c) ==
    CASE c = "G" -> "g"
      [] c = "C" -> "c"
      [] OTHER -> c

(* str::to_lowercase *)
ToLowercase(s) == [i \in 1..Len(s) |-> LowerChar(s[i])]

(* str::replace(' ', "-") *)
ReplaceSpaceWithDash(s) == [i \in 1..Len(s) |-> IF s[i] = " " THEN "-" ELSE s[i]]

(* char::is_uppercase on the characters of the model's alphabet *)
IsUppercase(ch) == ch \in {"G", "C"}

(* char::is_whitespace on the characters of the model's alphabet *)
IsWhitespace(ch) == ch \in {" ", "\n"}

RECURSIVE TrimStart(_)
TrimStart(s) ==
    IF s # << >> /\ IsWhitespace(Head(s)) THEN TrimStart(Tail(s)) ELSE s

RECURSIVE TrimEnd(_)
TrimEnd(s) ==
    IF s # << >> /\ IsWhitespace(s[Len(s)])
    THEN TrimEnd(SubSeq(s, 1, Len(s) - 1))
    ELSE s

(* str::trim *)
Trim(s) == TrimEnd(TrimStart(s))

generate_identifier(id, lowercase) ==
    ReplaceSpaceWithDash(IF lowercase THEN ToLowercase(id) ELSE id)

(* ------------------------------ URLs ---------------------------------- *)

\* crate::defaults::url()
PlaceholderUrl == "https://example.com/MUST_BE_CHANGED"
GithubUrl == "https://github.com/"
MitUrl == "https://opensource.org/licenses/MIT"
FileUrl == "file:///home/test/test-path"
MailtoUrl == "mailto:gep13@example.com"

(* url::Url::parse on the strings of the model: a host-only URL gains its  *)
(* root path, a string without a scheme is refused.                        *)
UrlParse(s) ==
    CASE s = "https://github.com"  -> [ok |-> TRUE, url |-> GithubUrl]
      [] s = "https://github.com/" -> [ok |-> TRUE, url |-> GithubUrl]
      [] s = PlaceholderUrl        -> [ok |-> TRUE, url |-> PlaceholderUrl]
      [] s = MitUrl                -> [ok |-> TRUE, url |-> MitUrl]
      [] s = "FILE:///home/test/test-path" -> [ok |-> TRUE, url |-> FileUrl]
      [] s = FileUrl               -> [ok |-> TRUE, url |-> FileUrl]
      [] s = MailtoUrl             -> [ok |-> TRUE, url |-> MailtoUrl]
      [] OTHER                     -> [ok |-> FALSE, url |-> ""]

(* Url::scheme, character by character *)
UrlScheme(url) ==
    CASE url = FileUrl   -> <<"f", "i", "l", "e">>
      [] url = MailtoUrl -> <<"m", "a", "i", "l", "t", "o">>
      [] OTHER           -> <<"h", "t", "t", "p", "s">>

(* Url::has_host *)
UrlHasHost(url) == url \notin {FileUrl, MailtoUrl}

(* Url::to_file_path(..).is_ok(): the URL has path segments and its host   *)
(* is absent or localhost.                                                 *)
UrlToFilePathOk(url) == url = FileUrl

(* crate::defaults::maintainer(): AER_MAINTAINER or the OS user *)
DefaultMaintainer == <<"osuser">>

(* ----------------------------- license -------------------------------- *)

LicenseNone == [kind |-> "None", expression |-> "", url |-> ""]
LicenseExpression(e) == [kind |-> "Expression", expression |-> e, url |-> ""]
LicenseLocation(u) == [kind |-> "Url", expression |-> "", url |-> u]
LicenseBoth(e, u) == [kind |-> "Both", expression |-> e, url |-> u]

(* The expression-to-URL lookup table of aer_license. *)
LicenseLookup(expression) ==
    IF expression = "MIT" THEN Some(MitUrl) ELSE None

(* LicenseType::license_url *)
LicenseUrl(license) ==
    CASE license.kind = "Url"        -> Some(license.url)
      [] license.kind = "Both"       -> Some(license.url)
      [] license.kind = "Expression" -> LicenseLookup(license.expression)
      [] OTHER                       -> None

(* --------------------------- generic record --------------------------- *)

(* PackageMetadata::new *)
NewPackageMetadata(id) ==
    [ id                 |-> id,
      maintainers        |-> DefaultMaintainer,
      summary            |-> "",
      project_url        |-> PlaceholderUrl,
      project_source_url |-> None,
      package_source_url |-> None,
      license            |-> LicenseNone,
      chocolatey         |-> None ]

(* PackageMetadata::project_source_url *)
project_source_url(from) ==
    IF IsSome(from.project_source_url) THEN Unwrap(from.project_source_url)
    ELSE PlaceholderUrl

(* PackageMetadata::package_source_url *)
package_source_url(from) ==
    IF IsSome(from.package_source_url) THEN Unwrap(from.package_source_url)
    ELSE PlaceholderUrl

(* PackageMetadata::set_maintainers *)
set_maintainers(self, vals) == [self EXCEPT !.maintainers = vals]

(* Variant: a parse error is swallowed and the call returns. *)
set_project_url_IgnoresError(self, url) ==
    LET parsed == UrlParse(url)
    IN  IF parsed.ok
        THEN [panicked |-> FALSE, value |-> [self EXCEPT !.project_url = parsed.url]]
        ELSE [panicked |-> FALSE, value |-> self]

(* PackageMetadata::set_project_url: Url::parse(url).unwrap() aborts on a  *)
(* parse error.  [panicked, value].                                        *)
set_project_url(self, url) ==
    LET parsed == UrlParse(url)
    IN  IF parsed.ok
        THEN [panicked |-> FALSE, value |-> [self EXCEPT !.project_url = parsed.url]]
        ELSE [panicked |-> TRUE, value |-> self]

(* Variant: a parse error drops the URL the record held. *)
set_project_source_url_ClearsOnError(self, url) ==
    LET parsed == UrlParse(url)
    IN  IF parsed.ok
        THEN [result |-> "Ok",
              value |-> [self EXCEPT !.project_source_url = Some(parsed.url)]]
        ELSE [result |-> "Err", value |-> [self EXCEPT !.project_source_url = None]]

(* PackageMetadata::set_project_source_url: `?` returns the parse error    *)
(* before the assignment.  [result, value].                                *)
set_project_source_url(self, url) ==
    LET parsed == UrlParse(url)
    IN  IF parsed.ok
        THEN [result |-> "Ok",
              value |-> [self EXCEPT !.project_source_url = Some(parsed.url)]]
        ELSE [result |-> "Err", value |-> self]

(* PackageMetadata::set_package_source_url *)
set_package_source_url(self, url) ==
    LET parsed == UrlParse(url)
    IN  IF parsed.ok
        THEN [result |-> "Ok",
              value |-> [self EXCEPT !.package_source_url = Some(parsed.url)]]
        ELSE [result |-> "Err", value |-> self]

(* PackageMetadata::set_license *)
set_license(self, license) == [self EXCEPT !.license = license]

(* Variant: the record takes over the identifier of the override record. *)
set_chocolatey_TakesId(self, c) ==
    [self EXCEPT !.chocolatey = Some(c), !.id = c.id]

(* PackageMetadata::set_chocolatey *)
set_chocolatey(self, c) == [self EXCEPT !.chocolatey = Some(c)]

(* -------------------------- override record --------------------------- *)

EmptyVersion == "0.0.0"
DescriptionNone == [kind |-> "None", text |-> ""]
DescriptionText(t) == [kind |-> "Text", text |-> t]

(* ChocolateyMetadata::default *)
DefaultChocolateyMetadata ==
    [ lowercase_id               |-> TRUE,
      id                         |-> << >>,
      maintainers                |-> << >>,
      summary                    |-> None,
      project_url                |-> None,
      project_source_url         |-> None,
      package_source_url         |-> None,
      license_url                |-> None,
      title                      |-> None,
      copyright                  |-> None,
      version                    |-> EmptyVersion,
      authors                    |-> << >>,
      description                |-> DescriptionNone,
      require_license_acceptance |-> TRUE,
      documentation_url          |-> None,
      issues_url                 |-> None,
      tags                       |-> << >>,
      release_notes              |-> None,
      dependencies               |-> {},
      files                      |-> {} ]

(* ChocolateyMetadata::add_tag *)
add_tag(self, tag) == [self EXCEPT !.tags = Append(@, tag)]

(* Variant: an empty list is accepted. *)
with_authors_AcceptEmpty(values) ==
    [panicked |-> FALSE,
     value |-> Some([DefaultChocolateyMetadata EXCEPT !.authors = values])]

(* ChocolateyMetadata::with_authors: panics on an empty list, before any   *)
(* record exists.  [panicked, value], value being Some(record) or None.    *)
with_authors(values) ==
    IF values = << >>
    THEN [panicked |-> TRUE, value |-> None]
    ELSE [panicked |-> FALSE,
          value |-> Some([DefaultChocolateyMetadata EXCEPT !.authors = values])]

(* Variant: the tag follows the lowercase flag, as the identifier does. *)
with_id_TagAsId(id, lowercase) ==
    add_tag([DefaultChocolateyMetadata EXCEPT
                 !.lowercase_id = lowercase,
                 !.id = generate_identifier(id, lowercase)],
            generate_identifier(id, lowercase))

(* ChocolateyMetadata::with_id *)
with_id(id, lowercase) ==
    add_tag([DefaultChocolateyMetadata EXCEPT
                 !.lowercase_id = lowercase,
                 !.id = generate_identifier(id, lowercase)],
            generate_identifier(id, TRUE))

(* --------------------- setters of the override record ----------------- *)

(* Versions::parse of aer_version: [ok, version]. *)
VersionParse(s) ==
    CASE s = "1.0.0" -> [ok |-> TRUE, version |-> "1.0.0"]
      [] s = "2.0.0" -> [ok |-> TRUE, version |-> "2.0.0"]
      [] OTHER       -> [ok |-> FALSE, version |-> ""]

(* HashMap::insert: the entry of `key` is added or overwritten. *)
MapInsert(map, key, value) == {p \in map : p[1] # key} \cup {<<key, value>>}

(* ChocolateyMetadata::set_title *)
set_title(self, title) == [self EXCEPT !.title = Some(title)]

(* ChocolateyMetadata::set_copyright *)
set_copyright(self, copyright) == [self EXCEPT !.copyright = Some(copyright)]

(* ChocolateyMetadata::set_release_notes *)
set_release_notes(self, release_notes) ==
    [self EXCEPT !.release_notes = Some(release_notes)]

(* ChocolateyMetadata::set_description *)
set_description(self, description) == [self EXCEPT !.description = description]

(* ChocolateyMetadata::set_description_str *)
set_description_str(self, description) ==
    set_description(self, DescriptionText(description))

(* ChocolateyMetadata::add_dependencies: Versions::parse(..).unwrap()      *)
(* panics on a parse error, before the insert.  [panicked, value].         *)
add_dependencies(self, id, version) ==
    LET parsed == VersionParse(version)
    IN  IF parsed.ok
        THEN [panicked |-> FALSE,
              value |-> [self EXCEPT !.dependencies = MapInsert(@, id, parsed.version)]]
        ELSE [panicked |-> TRUE, value |-> self]

(* ChocolateyMetadata::add_file *)
add_file(self, src, target) ==
    [self EXCEPT !.files = MapInsert(@, src, target)]

(* The loop of set_dependencies, stopped by the first panic. *)
RECURSIVE AddAllDependencies(_, _)
AddAllDependencies(run, dependencies) ==
    IF run.panicked \/ dependencies = << >> THEN run
    ELSE AddAllDependencies(
             add_dependencies(run.value, Head(dependencies)[1], Head(dependencies)[2]),
             Tail(dependencies))

(* ChocolateyMetadata::set_dependencies: [panicked, value] *)
set_dependencies(self, dependencies) ==
    AddAllDependencies([panicked |-> FALSE,
                        value |-> [self EXCEPT !.dependencies = {}]],
                       dependencies)

(* The loop of set_files. *)
RECURSIVE AddAllFiles(_, _)
AddAllFiles(self, files) ==
    IF files = << >> THEN self
    ELSE AddAllFiles(add_file(self, Head(files)[1], Head(files)[2]), Tail(files))

(* ChocolateyMetadata::set_files *)
set_files(self, files) == AddAllFiles([self EXCEPT !.files = {}], files)

(* The loop of set_tags. *)
RECURSIVE AddAllTags(_, _)
AddAllTags(self, tags) ==
    IF tags = << >> THEN self
    ELSE AddAllTags(add_tag(self, Head(tags)), Tail(tags))

(* Variant: the tags the record held are kept. *)
set_tags_NoClear(self, tags) == AddAllTags(self, tags)

(* ChocolateyMetadata::set_tags *)
set_tags(self, tags) == AddAllTags([self EXCEPT !.tags = << >>], tags)

(* ---------------------------- the work directory ---------------------- *)
(* The directories under the work directory, by name, and the files in     *)
(* them, as <<directory, file name, content>>.                             *)

EmptyDisk == [dirs |-> {}, files |-> {}]

(* ------------------------------ generate ------------------------------ *)
(* Paths and targets of the files mapping are sequences of characters.     *)

ToolsSlash == <<"t", "o", "o", "l", "s", "/", "*", "*">>
ToolsBackslash == <<"t", "o", "o", "l", "s", "\\", "*", "*">>
ToolsTarget == <<"t", "o", "o", "l", "s">>

(* DEFAULT_FILE of the build: cfg!(windows) or not. *)
DEFAULT_FILE(windows) == IF windows THEN ToolsBackslash ELSE ToolsSlash

(* str::replace of one character by another *)
ReplaceChar(str, from, to) ==
    [i \in 1..Len(str) |-> IF str[i] = from THEN to ELSE str[i]]

(* The source of a files entry with the separator of the build. *)
NormalizeSeparators(src, windows) ==
    IF windows THEN ReplaceChar(src, "/", "\\") ELSE ReplaceChar(src, "\\", "/")

(* Variant: every entry of the mapping is written. *)
file_elements_NoSkip(data, windows) ==
    {[origin |-> << >>, src |-> Trim(DEFAULT_FILE(windows)), target |-> Trim(ToolsTarget)]}
    \cup {[origin |-> f[1], src |-> Trim(NormalizeSeparators(f[1], windows)),
           target |-> Trim(f[2])] : f \in data.files}

(* The <file> elements create_nuspec_file writes: the default one, then    *)
(* one per entry of the mapping whose separator-normalised source is not   *)
(* DEFAULT_FILE; write_element! trims each attribute value.  `origin` is   *)
(* the key of the mapping the element comes from, empty for the default.   *)
file_elements(data, windows) ==
    {[origin |-> << >>, src |-> Trim(DEFAULT_FILE(windows)), target |-> Trim(ToolsTarget)]}
    \cup {[origin |-> f[1], src |-> Trim(NormalizeSeparators(f[1], windows)),
           target |-> Trim(f[2])] :
             f \in {g \in data.files : NormalizeSeparators(g[1], windows) # DEFAULT_FILE(windows)}}

(* The manifest create_nuspec_file writes, as far as the model follows it. *)
nuspec(data, windows) ==
    [id |-> Trim(data.id), tags |-> data.tags, files |-> file_elements(data, windows)]

(* create_nuspec_file: File::create(work_dir/<id>.nuspec) and its content. *)
create_nuspec_file(work_dir, dir, data, windows) ==
    LET name == data.id \o <<".nuspec">>
    IN  [work_dir EXCEPT
            !.files = {f \in @ : ~(f[1] = dir /\ f[2] = name)}
                      \cup {<<dir, name, nuspec(data, windows)>>}]

(* Variant: the directory is prepared before the identifier is looked at. *)
generate_ChecksLate(self, work_dir, windows) ==
    LET dir == self.id
        prepared == IF dir \notin work_dir.dirs
                    THEN [work_dir EXCEPT !.dirs = @ \cup {dir}]
                    ELSE [work_dir EXCEPT !.files = {f \in @ : f[1] # dir}]
    IN  IF Trim(self.id) = << >>
        THEN [result |-> "NotFound", disk |-> prepared]
        ELSE [result |-> "Ok",
              disk |-> create_nuspec_file(prepared, dir, self, windows)]

(* PackageGenerator::generate for ChocolateyMetadata: [result, disk]. *)
generate(self, work_dir, windows) ==
    IF Trim(self.id) = << >>
    THEN [result |-> "NotFound", disk |-> work_dir]
    ELSE LET dir == self.id
             prepared == IF dir \notin work_dir.dirs
                         THEN [work_dir EXCEPT !.dirs = @ \cup {dir}]
                         ELSE [work_dir EXCEPT !.files = {f \in @ : f[1] # dir}]
         IN  [result |-> "Ok",
              disk |-> create_nuspec_file(prepared, dir, self, windows)]

(* ----------------------------- update_from ---------------------------- *)
(* Each step is one `if` of update_from, applied to the record as the      *)
(* earlier steps left it.                                                  *)

(* Variant: the generic identifier is copied as it is. *)
UpdateFromId_Verbatim(self, from) ==
    IF self.id = << >> /\ from.id # << >>
    THEN [self EXCEPT !.id = from.id]
    ELSE self

UpdateFromId(self, from) ==
    IF self.id = << >> /\ from.id # << >>
    THEN [self EXCEPT !.id = generate_identifier(from.id, self.lowercase_id)]
    ELSE self

UpdateFromMaintainers(self, from) ==
    IF self.maintainers = << >>
    THEN [self EXCEPT !.maintainers = from.maintainers]
    ELSE self

UpdateFromSummary(self, from) ==
    IF IsNone(self.summary) /\ from.summary # ""
    THEN [self EXCEPT !.summary = Some(from.summary)]
    ELSE self

(* Variant: the placeholder is treated as "no project URL". *)
UpdateFromProjectUrl_SkipPlaceholder(self, from) ==
    IF IsNone(self.project_url) /\ from.project_url # PlaceholderUrl
    THEN [self EXCEPT !.project_url = Some(from.project_url)]
    ELSE self

UpdateFromProjectUrl(self, from) ==
    IF IsNone(self.project_url)
    THEN [self EXCEPT !.project_url = Some(from.project_url)]
    ELSE self

(* Variant: the accessor, with its placeholder fallback, is copied. *)
UpdateFromProjectSourceUrl_Accessor(self, from) ==
    IF IsNone(self.project_source_url)
    THEN [self EXCEPT !.project_source_url = Some(project_source_url(from))]
    ELSE self

UpdateFromProjectSourceUrl(self, from) ==
    IF IsNone(self.project_source_url)
    THEN [self EXCEPT !.project_source_url = from.project_source_url]
    ELSE self

UpdateFromPackageSourceUrl(self, from) ==
    IF IsNone(self.package_source_url)
    THEN [self EXCEPT !.package_source_url = from.package_source_url]
    ELSE self

(* Variant: the override's own license URL is not looked at. *)
UpdateFromLicenseUrl_Overwrite(self, from) ==
    IF IsSome(LicenseUrl(from.license))
    THEN [panicked |-> FALSE,
          value |-> [self EXCEPT !.license_url = LicenseUrl(from.license)]]
    ELSE [panicked |-> FALSE, value |-> self]

(* Variant: only an explicit location is copied, the lookup is skipped. *)
UpdateFromLicenseUrl_LocationOnly(self, from) ==
    IF IsNone(self.license_url) /\ from.license.kind \in {"Url", "Both"}
    THEN [panicked |-> FALSE,
          value |-> [self EXCEPT !.license_url = Some(from.license.url)]]
    ELSE [panicked |-> FALSE, value |-> self]

(* Variant: license_url() is unwrapped, not matched. *)
UpdateFromLicenseUrl_Unwrap(self, from) ==
    IF IsNone(self.license_url)
    THEN IF IsSome(LicenseUrl(from.license))
         THEN [panicked |-> FALSE,
               value |-> [self EXCEPT !.license_url = LicenseUrl(from.license)]]
         ELSE [panicked |-> TRUE, value |-> self]
    ELSE [panicked |-> FALSE, value |-> self]

(* The license step: Url::parse(license).unwrap() panics on a parse error. *)
UpdateFromLicenseUrl(self, from) ==
    IF IsNone(self.license_url) /\ IsSome(LicenseUrl(from.license))
    THEN LET parsed == UrlParse(Unwrap(LicenseUrl(from.license)))
         IN  IF parsed.ok
             THEN [panicked |-> FALSE,
                   value |-> [self EXCEPT !.license_url = Some(parsed.url)]]
             ELSE [panicked |-> TRUE, value |-> self]
    ELSE [panicked |-> FALSE, value |-> self]

(* Variant: the tag is inserted without looking for it first. *)
UpdateFromTags_AlwaysInsert(self, from) ==
    IF self.id # << >>
    THEN [self EXCEPT !.tags = <<ToLowercase(self.id)>> \o self.tags]
    ELSE self

UpdateFromTags(self, from) ==
    LET lower_id == ToLowercase(self.id)
    IN  IF self.id # << >> /\ ~Contains(self.tags, lower_id)
        THEN [self EXCEPT !.tags = <<ToLowercase(self.id)>> \o self.tags]
        ELSE self

(* DataUpdater::update_from: [panicked, value], value being the record as  *)
(* the call left it.                                                       *)
update_from(self, from) ==
    LET s1 == UpdateFromId(self, from)
        s2 == UpdateFromMaintainers(s1, from)
        s3 == UpdateFromSummary(s2, from)
        s4 == UpdateFromProjectUrl(s3, from)
        s5 == UpdateFromProjectSourceUrl(s4, from)
        s6 == UpdateFromPackageSourceUrl(s5, from)
        s7 == UpdateFromLicenseUrl(s6, from)
    IN  IF s7.panicked THEN s7
        ELSE [panicked |-> FALSE, value |-> UpdateFromTags(s7.value, from)]

(* ----------------------------- reset_same ----------------------------- *)

(* Variant: the expected identifier is always the lowercase one. *)
ResetSameId_AlwaysLowercase(self, from) ==
    IF self.id = generate_identifier(from.id, TRUE)
    THEN [self EXCEPT !.id = << >>]
    ELSE self

(* Variant: clearing the identifier also puts lowercase_id back to its default. *)
ResetSameId_ResetFlag(self, from) ==
    IF self.id = generate_identifier(from.id, self.lowercase_id)
    THEN [self EXCEPT !.id = << >>, !.lowercase_id = TRUE]
    ELSE self

ResetSameId(self, from) ==
    IF self.id = generate_identifier(from.id, self.lowercase_id)
    THEN [self EXCEPT !.id = << >>]
    ELSE self

ResetSameMaintainers(self, from) ==
    IF self.maintainers = from.maintainers
    THEN [self EXCEPT !.maintainers = << >>]
    ELSE self

ResetSameSummary(self, from) ==
    IF IsSome(self.summary) /\ Unwrap(self.summary) = from.summary
    THEN [self EXCEPT !.summary = None]
    ELSE self

ResetSameProjectUrl(self, from) ==
    IF IsSome(self.project_url) /\ Unwrap(self.project_url) = from.project_url
    THEN [self EXCEPT !.project_url = None]
    ELSE self

ResetSameProjectSourceUrl(self, from) ==
    IF IsSome(self.project_source_url)
       /\ Unwrap(self.project_source_url) = project_source_url(from)
    THEN [self EXCEPT !.project_source_url = None]
    ELSE self

ResetSamePackageSourceUrl(self, from) ==
    IF IsSome(self.package_source_url)
       /\ Unwrap(self.package_source_url) = package_source_url(from)
    THEN [self EXCEPT !.package_source_url = None]
    ELSE self

ResetSameLicenseUrl(self, from) ==
    IF IsSome(self.license_url) /\ IsSome(LicenseUrl(from.license))
       /\ Unwrap(self.license_url) = Unwrap(LicenseUrl(from.license))
    THEN [self EXCEPT !.license_url = None]
    ELSE self

(* Variant: the identifier tag is removed only from the head of the list. *)
ResetSameTags_HeadOnly(self, id) ==
    IF self.tags # << >> /\ Head(self.tags) = id
    THEN [self EXCEPT !.tags = Tail(self.tags)]
    ELSE self

(* self.tags.retain(|t| t != &id), id being the lowercase identifier read  *)
(* at entry of reset_same.                                                 *)
ResetSameTags(self, id) ==
    [self EXCEPT !.tags = SelectSeq(self.tags, LAMBDA t : t # id)]

(* DataUpdater::reset_same *)
reset_same(self, from) ==
    LET id == ToLowercase(self.id)
        s1 == ResetSameId(self, from)
        s2 == ResetSameMaintainers(s1, from)
        s3 == ResetSameSummary(s2, from)
        s4 == ResetSameProjectUrl(s3, from)
        s5 == ResetSameProjectSourceUrl(s4, from)
        s6 == ResetSamePackageSourceUrl(s5, from)
        s7 == ResetSameLicenseUrl(s6, from)
    IN  [panicked |-> FALSE, value |-> ResetSameTags(s7, id)]

(* ----------------------------- rule engine ---------------------------- *)
(* A Result<(), RuleMessage> is a sequence of length at most one: << >> is *)
(* Ok(()) and <<msg>> is Err(msg).                                         *)

\* RuleKind
Core == "Core"
Community == "Community"
RuleKinds == {Core, Community}

\* MessageType
Requirement == "Requirement"
Guideline == "Guideline"
Suggestion == "Suggestion"
Note == "Note"

RuleMessage(message_type, package_manager, message) ==
    [message_type |-> message_type, package_manager |-> package_manager,
     message |-> message]

IdNotEmptyMessage ==
    RuleMessage(Requirement, "", "A identifier can not be empty!")

MaintainersNotEmptyMessage ==
    RuleMessage(Requirement, "",
                "At least 1 maintainer must be specified for the package!")

ProjectUrlNotLocalPathMessage ==
    RuleMessage(Requirement, "", "The project url can not be a local path!")

IdIsLowercaseMessage ==
    RuleMessage(Note, "choco",
                "The identifier contains upper case characters. If this is a new package, it should only contain characters in lower case!")

IdNotEmptyRequirement_should_validate(rule_kind) == TRUE

(* Variant: every identifier is accepted. *)
IdNotEmptyRequirement_validate_AcceptsAll(data) == << >>

(* Variant: the identifier is not trimmed. *)
IdNotEmptyRequirement_validate_NoTrim(data) ==
    IF data.id = << >> THEN <<IdNotEmptyMessage>> ELSE << >>

IdNotEmptyRequirement_validate(data) ==
    IF Trim(data.id) = << >> THEN <<IdNotEmptyMessage>> ELSE << >>

MaintainersNotEmptyRequirement_should_validate(rule_kind) == TRUE

(* Variant: only the empty list is refused. *)
MaintainersNotEmptyRequirement_validate_EmptyListOnly(metadata) ==
    IF metadata.maintainers = << >> THEN <<MaintainersNotEmptyMessage>> ELSE << >>

MaintainersNotEmptyRequirement_validate(metadata) ==
    LET maintainers == metadata.maintainers
    IN  IF \A i \in 1..Len(maintainers) : maintainers[i] = ""
        THEN <<MaintainersNotEmptyMessage>>
        ELSE << >>

ProjectUrlNotLocalPathRequirement_should_validate(rule_kind) == TRUE

ProjectUrlNotLocalPathRequirement_validate(data) ==
    LET project_url == data.project_url
    IN  IF \/ ~UrlHasHost(project_url)
           \/ UrlToFilePathOk(project_url)
           \/ ToLowercase(UrlScheme(project_url)) = <<"f", "i", "l", "e">>
        THEN <<ProjectUrlNotLocalPathMessage>>
        ELSE << >>

(* Variant: the rule runs at every level. *)
IdIsLowercaseNote_should_validate_Always(rule_kind) == TRUE

(* Variant: the rule runs at Core and not at Community. *)
IdIsLowercaseNote_should_validate_CoreOnly(rule_kind) == rule_kind = Core

IdIsLowercaseNote_should_validate(rule_kind) == rule_kind = Community

IdIsLowercaseNote_validate(data) ==
    LET id == data.id
    IN  IF \E i \in 1..Len(id) : IsUppercase(id[i])
        THEN <<IdIsLowercaseMessage>>
        ELSE << >>

\* The rules, by the name of their type.
GenericRules ==
    <<"IdNotEmptyRequirement", "MaintainersNotEmptyRequirement",
      "ProjectUrlNotLocalPathRequirement">>
ChocolateyRules == <<"IdIsLowercaseNote">>

(* <$rule>::should_validate *)
should_validate(rule, rule_kind) ==
    CASE rule = "IdNotEmptyRequirement" ->
             IdNotEmptyRequirement_should_validate(rule_kind)
      [] rule = "MaintainersNotEmptyRequirement" ->
             MaintainersNotEmptyRequirement_should_validate(rule_kind)
      [] rule = "ProjectUrlNotLocalPathRequirement" ->
             ProjectUrlNotLocalPathRequirement_should_validate(rule_kind)
      [] rule = "IdIsLowercaseNote" ->
             IdIsLowercaseNote_should_validate(rule_kind)

(* <$rule>::validate *)
validate(rule, data) ==
    CASE rule = "IdNotEmptyRequirement" ->
             IdNotEmptyRequirement_validate(data)
      [] rule = "MaintainersNotEmptyRequirement" ->
             MaintainersNotEmptyRequirement_validate(data)
      [] rule = "ProjectUrlNotLocalPathRequirement" ->
             ProjectUrlNotLocalPathRequirement_validate(data)
      [] rule = "IdIsLowercaseNote" ->
             IdIsLowercaseNote_validate(data)

(* Variant: once a diagnostic is collected no further rule runs. *)
call_rule_StopAtFirst(msgs, rule_kind, data, rule) ==
    IF msgs = << >> /\ should_validate(rule, rule_kind) /\ validate(rule, data) # << >>
    THEN Append(msgs, validate(rule, data)[1])
    ELSE msgs

(* One repetition of the body of call_rules!, for one rule. *)
call_rule(msgs, rule_kind, data, rule) ==
    IF should_validate(rule, rule_kind) /\ validate(rule, data) # << >>
    THEN Append(msgs, validate(rule, data)[1])
    ELSE msgs

(* call_rules!: the body repeated for every rule listed, in order. *)
RECURSIVE call_rules(_, _, _, _)
call_rules(msgs, rule_kind, data, rules) ==
    IF rules = << >> THEN msgs
    ELSE call_rules(call_rule(msgs, rule_kind, data, Head(rules)),
                    rule_kind, data, Tail(rules))

(* rules::metadata::chocolatey::run_validation *)
chocolatey_run_validation(msgs, data, rule_kind) ==
    call_rules(msgs, rule_kind, data, ChocolateyRules)

(* Variant: the Chocolatey rules run before the generic ones. *)
run_validation_ChocolateyFirst(msgs, data, rule_kind) ==
    call_rules(chocolatey_run_validation(msgs, data, rule_kind),
               rule_kind, data, GenericRules)

(* rules::metadata::run_validation *)
run_validation(msgs, data, rule_kind) ==
    chocolatey_run_validation(call_rules(msgs, rule_kind, data, GenericRules),
                              data, rule_kind)

(* rules::validate_metadata: [ok, msgs]; Ok(()) is [TRUE, << >>] and       *)
(* Err(msgs) is [FALSE, msgs].                                             *)
validate_metadata(data, rule_kind) ==
    LET msgs == run_validation(<< >>, data, rule_kind)
    IN  IF msgs = << >> THEN [ok |-> TRUE, msgs |-> << >>]
        ELSE [ok |-> FALSE, msgs |-> msgs]

(* ------------------------- the loaded records ------------------------- *)
(* Both records derive Deserialize: a record is loaded from a document     *)
(* that sets some of its keys, every key left out taking its default.      *)
(* Loading is modelled key by key, before the first reconciliation call.   *)

\* PackageMetadata.id values: "", "c" and "G c".
PackageIds == { << >>, <<"c">>, <<"G", " ", "c">> }

\* ChocolateyMetadata.id values a document sets: the identifiers
\* generate_identifier yields, the raw ones, and an unrelated one.
ChocolateyIds ==
    ({generate_identifier(id, lc) : id \in PackageIds, lc \in BOOLEAN}
        \cup PackageIds \cup {<<"x">>}) \ {<< >>}

\* Single tags: "c", "g-c" and the empty string.
TagValues == { <<"c">>, <<"g", "-", "c">>, << >> }

UrlValues == {PlaceholderUrl, GithubUrl}

LicenseValues ==
    { LicenseExpression("MIT"), LicenseExpression("invalid-spdix"),
      LicenseLocation(GithubUrl), LicenseBoth("MIT", GithubUrl),
      LicenseBoth("invalid-spdix", GithubUrl) }

PackageKeys ==
    {"maintainers", "summary", "project_url", "project_source_url",
     "package_source_url", "license"}

(* The values a document gives a key of the generic record. *)
PackageKeyValues(key) ==
    CASE key = "maintainers"        -> {<< >>, <<"gep13">>, <<"", "">>}
      [] key = "summary"            -> {"summary"}
      [] key = "project_url"        -> {GithubUrl}
      [] key = "project_source_url" -> {Some(u) : u \in UrlValues}
      [] key = "package_source_url" -> {Some(u) : u \in UrlValues}
      [] key = "license"            -> LicenseValues

ChocolateyKeys ==
    {"lowercase_id", "id", "maintainers", "summary", "project_url",
     "project_source_url", "package_source_url", "license_url", "title",
     "copyright", "version", "authors", "description",
     "require_license_acceptance", "documentation_url", "issues_url", "tags",
     "release_notes", "dependencies", "files"}

(* The values a document gives a key of the override record. *)
ChocolateyKeyValues(key) ==
    CASE key = "lowercase_id"       -> {FALSE}
      [] key = "id"                 -> ChocolateyIds
      [] key = "maintainers"        -> {DefaultMaintainer, <<"gep13">>}
      [] key = "summary"            -> {Some(""), Some("summary")}
      [] key = "project_url"        -> {Some(u) : u \in UrlValues}
      [] key = "project_source_url" -> {Some(u) : u \in UrlValues}
      [] key = "package_source_url" -> {Some(u) : u \in UrlValues}
      [] key = "license_url"        -> {Some(GithubUrl), Some(MitUrl)}
      [] key = "title"              -> {Some("title")}
      [] key = "copyright"          -> {Some("copyright")}
      [] key = "version"            -> {"1.0.0"}
      [] key = "authors"            -> {<<"author">>}
      [] key = "description"        -> {DescriptionText("description")}
      [] key = "require_license_acceptance" -> {FALSE}
      [] key = "documentation_url"  -> {Some(GithubUrl)}
      [] key = "issues_url"         -> {Some(GithubUrl)}
      [] key = "tags"               -> SeqsUpTo(TagValues, MaxTags) \ {<< >>}
      [] key = "release_notes"      -> {Some("notes")}
      [] key = "dependencies"       -> {{<<"dep", "1.0.0">>}}
      [] key = "files"              -> {{<<"tools/**", "tools">>}}

(* Number of keys of the two records that differ from their defaults. *)
KeysSet(package, chocolatey) ==
    Cardinality({k \in PackageKeys : package[k] # NewPackageMetadata(package.id)[k]})
    + Cardinality({k \in ChocolateyKeys : chocolatey[k] # DefaultChocolateyMetadata[k]})

(* --------------------------- specification ---------------------------- *)

Init ==
    /\ pkg \in {NewPackageMetadata(id) : id \in PackageIds}
    /\ choco = DefaultChocolateyMetadata
    /\ orig = choco
    /\ pre = choco
    /\ trace = << >>
    /\ outcome = "ok"
    /\ input = None
    /\ result = None
    /\ disk = EmptyDisk

(* Deserialising the generic record reads one more key of its document. *)
LoadPackageKey ==
    /\ trace = << >>
    /\ KeysSet(pkg, choco) < MaxKeys
    /\ \E k \in PackageKeys :
          /\ pkg[k] = NewPackageMetadata(pkg.id)[k]
          /\ \E v \in PackageKeyValues(k) : pkg' = [pkg EXCEPT ![k] = v]
    /\ UNCHANGED <<choco, orig, pre, trace, outcome, input, result, disk>>

(* Deserialising the override record reads one more key of its document. *)
LoadChocolateyKey ==
    /\ trace = << >>
    /\ KeysSet(pkg, choco) < MaxKeys
    /\ \E k \in ChocolateyKeys :
          /\ choco[k] = DefaultChocolateyMetadata[k]
          /\ \E v \in ChocolateyKeyValues(k) : choco' = [choco EXCEPT ![k] = v]
    /\ orig' = choco'
    /\ pre' = choco'
    /\ UNCHANGED <<pkg, trace, outcome, input, result, disk>>

(* A call of `name`, whose run on the current records is `run`. *)
Call(name, run) ==
    /\ outcome = "ok"
    /\ Len(trace) < MaxOps
    /\ pre' = choco
    /\ choco' = run.value
    /\ outcome' = IF run.panicked THEN "panic" ELSE "ok"
    /\ trace' = Append(trace, name)
    /\ input' = None
    /\ result' = None
    /\ UNCHANGED <<pkg, orig, disk>>

UpdateFrom == Call("update_from", update_from(choco, pkg))

ResetSame == Call("reset_same", reset_same(choco, pkg))

Next == LoadPackageKey \/ LoadChocolateyKey \/ UpdateFrom \/ ResetSame

Spec == Init /\ [][Next]_vars

(* ------------------- the records and their clients -------------------- *)
(* A client constructs the two records and calls their setters, the two    *)
(* reconciliation operations and the validation, in any order.             *)

\* Identifiers given to PackageMetadata::new and ChocolateyMetadata::with_id:
\* those of PackageIds, "  \n" style blanks and " c".
ApiIds == PackageIds \cup { <<" ", "\n">>, <<" ", "c">> }

MaintainerLists == { << >>, <<"gep13">>, <<"", "">>, <<"", "gep13">> }

AuthorLists == { << >>, <<"author">>, <<"b", "a">> }

\* Strings given to set_project_url.
UrlStrings ==
    {"https://github.com", "FILE:///home/test/test-path", MailtoUrl, "not a url"}

\* Strings given to the two source URL setters.
SourceUrlStrings == {"https://github.com", PlaceholderUrl, "not a url"}

\* The unit value a setter returns.
Unit == "()"

InitApi ==
    /\ pkg \in {NewPackageMetadata(id) : id \in ApiIds}
    /\ choco = DefaultChocolateyMetadata
    /\ orig = choco
    /\ pre = choco
    /\ trace = << >>
    /\ outcome = "ok"
    /\ input = None
    /\ result = None
    /\ disk = EmptyDisk

(* The client may make one more call. *)
CanCall == outcome = "ok" /\ Len(trace) < MaxCalls

(* The call `name` with argument `arg` ended, returning `ret`. *)
Returned(name, arg, ret) ==
    /\ trace' = Append(trace, name)
    /\ input' = arg
    /\ result' = ret

SetMaintainers ==
    /\ CanCall
    /\ \E vals \in MaintainerLists :
          /\ pkg' = set_maintainers(pkg, vals)
          /\ Returned("set_maintainers", vals, Unit)
    /\ UNCHANGED <<disk, choco, orig, pre, outcome>>

(* The summary is a public field: the client assigns it. *)
SetSummary ==
    /\ CanCall
    /\ pkg' = [pkg EXCEPT !.summary = "summary"]
    /\ Returned("summary", "summary", Unit)
    /\ UNCHANGED <<disk, choco, orig, pre, outcome>>

SetProjectUrl ==
    /\ CanCall
    /\ \E url \in UrlStrings :
          LET run == set_project_url(pkg, url)
          IN  /\ pkg' = run.value
              /\ outcome' = IF run.panicked THEN "panic" ELSE "ok"
              /\ Returned("set_project_url", url,
                          IF run.panicked THEN None ELSE Unit)
    /\ UNCHANGED <<disk, choco, orig, pre>>

SetProjectSourceUrl ==
    /\ CanCall
    /\ \E url \in SourceUrlStrings :
          LET run == set_project_source_url(pkg, url)
          IN  /\ pkg' = run.value
              /\ Returned("set_project_source_url", url, run.result)
    /\ UNCHANGED <<disk, choco, orig, pre, outcome>>

SetPackageSourceUrl ==
    /\ CanCall
    /\ \E url \in SourceUrlStrings :
          LET run == set_package_source_url(pkg, url)
          IN  /\ pkg' = run.value
              /\ Returned("set_package_source_url", url, run.result)
    /\ UNCHANGED <<disk, choco, orig, pre, outcome>>

SetLicense ==
    /\ CanCall
    /\ \E license \in {LicenseExpression("MIT"), LicenseLocation(GithubUrl)} :
          /\ pkg' = set_license(pkg, license)
          /\ Returned("set_license", license, Unit)
    /\ UNCHANGED <<disk, choco, orig, pre, outcome>>

SetChocolatey ==
    /\ CanCall
    /\ pkg' = set_chocolatey(pkg, choco)
    /\ Returned("set_chocolatey", choco, Unit)
    /\ UNCHANGED <<disk, choco, orig, pre, outcome>>

(* The client replaces its override record by with_authors(values). *)
WithAuthors ==
    /\ CanCall
    /\ \E values \in AuthorLists :
          LET run == with_authors(values)
          IN  /\ choco' = IF run.panicked THEN choco ELSE Unwrap(run.value)
              /\ outcome' = IF run.panicked THEN "panic" ELSE "ok"
              /\ Returned("with_authors", values, run.value)
    /\ orig' = choco'
    /\ pre' = choco'
    /\ UNCHANGED <<disk, pkg>>

(* The client replaces its override record by with_id(id, lowercase), id   *)
(* being one of ids.                                                       *)
WithIdOf(ids) ==
    /\ CanCall
    /\ \E id \in ids, lowercase \in BOOLEAN :
          /\ choco' = with_id(id, lowercase)
          /\ Returned("with_id", [id |-> id, lowercase |-> lowercase],
                      with_id(id, lowercase))
    /\ orig' = choco'
    /\ pre' = choco'
    /\ UNCHANGED <<disk, pkg, outcome>>

WithId == WithIdOf(ApiIds)

Validate ==
    /\ CanCall
    /\ \E rule_kind \in RuleKinds :
          Returned("validate_metadata", rule_kind, validate_metadata(pkg, rule_kind))
    /\ UNCHANGED <<disk, pkg, choco, orig, pre, outcome>>

NextApi ==
    \/ SetMaintainers \/ SetSummary \/ SetProjectUrl \/ SetProjectSourceUrl
    \/ SetPackageSourceUrl \/ SetLicense \/ SetChocolatey
    \/ WithAuthors \/ WithId
    \/ UpdateFrom \/ ResetSame \/ Validate

ApiSpec == InitApi /\ [][NextApi]_vars

(* ------------------ the override record and its clients --------------- *)
(* A client builds an override record with the constructors and setters,   *)
(* reconciles it with a generic record and generates its manifest.         *)

\* Identifiers given to PackageMetadata::new and ChocolateyMetadata::with_id:
\* "", a newline, "c" and "G c".
ChocoIds == { << >>, <<"\n">>, <<"c">>, <<"G", " ", "c">> }

\* Tags lists given to set_tags.
TagLists ==
    { << >>, << <<"c">> >>, << <<"g", "-", "c">>, <<"c">> >>, << <<"c">>, <<"c">> >> }

\* Sources of files entries: the default tools source with either
\* separator, the same after a blank, and another directory.
PaddedTools == <<" ">> \o ToolsSlash
BinSource == <<"b", "i", "n">>

\* Lists of <<source, target>> given to set_files.
FileLists ==
    { << >>,
      << <<ToolsSlash, <<"x">>>> >>,
      << <<ToolsBackslash, <<"x">>>>, <<BinSource, ToolsTarget>> >>,
      << <<BinSource, <<"x">>>>, <<BinSource, ToolsTarget>> >>,
      << <<PaddedTools, <<"x">>>> >> }

\* Lists of <<identifier, version>> given to set_dependencies.
DependencyLists ==
    { << >>,
      << <<"dep", "1.0.0">> >>,
      << <<"dep", "1.0.0">>, <<"dep", "2.0.0">> >>,
      << <<"dep", "1.0.0">>, <<"other", "not-a-version">> >> }

\* A work directory that already holds directories with a file each.
StaleDisk ==
    [dirs |-> {<<"c">>, <<"\n">>},
     files |-> {<< <<"c">>, <<"non.nuspec">>, "stale" >>,
                << <<"\n">>, <<"non.nuspec">>, "stale" >>}]

InitChoco ==
    /\ pkg \in {NewPackageMetadata(id) : id \in ChocoIds}
    /\ choco \in {DefaultChocolateyMetadata}
                 \cup {with_id(id, lowercase) : id \in ChocoIds, lowercase \in BOOLEAN}
    /\ orig = choco
    /\ pre = choco
    /\ trace = << >>
    /\ outcome = "ok"
    /\ input = None
    /\ result = None
    /\ disk \in {EmptyDisk, StaleDisk}

(* The client may make one more call on the override record. *)
CanEdit == outcome = "ok" /\ Len(trace) < MaxEdits

(* A setter of the override record, called `name` with argument `arg`,     *)
(* leaves the record `value`.                                              *)
Edit(name, arg, value) ==
    /\ pre' = choco
    /\ choco' = value
    /\ Returned(name, arg, Unit)
    /\ UNCHANGED <<pkg, orig, outcome, disk>>

(* The same for a setter that may panic: run is [panicked, value]. *)
EditOrPanic(name, arg, run) ==
    /\ pre' = choco
    /\ choco' = run.value
    /\ outcome' = IF run.panicked THEN "panic" ELSE "ok"
    /\ Returned(name, arg, IF run.panicked THEN None ELSE Unit)
    /\ UNCHANGED <<pkg, orig, disk>>

SetTitle == CanEdit /\ Edit("set_title", "title", set_title(choco, "title"))

SetCopyright ==
    CanEdit /\ Edit("set_copyright", "copyright", set_copyright(choco, "copyright"))

SetReleaseNotes ==
    CanEdit /\ Edit("set_release_notes", "notes", set_release_notes(choco, "notes"))

SetDescriptionStr ==
    CanEdit /\ Edit("set_description_str", "description",
                    set_description_str(choco, "description"))

AddTag ==
    /\ CanEdit
    /\ \E tag \in {<<"c">>, << >>} : Edit("add_tag", tag, add_tag(choco, tag))

AddFile ==
    /\ CanEdit
    /\ \E f \in {<<ToolsSlash, <<"x">>>>, <<BinSource, <<"x">>>>,
                 <<BinSource, ToolsTarget>>} :
          Edit("add_file", f, add_file(choco, f[1], f[2]))

AddDependencies ==
    /\ CanEdit
    /\ \E d \in {<<"dep", "1.0.0">>, <<"dep", "2.0.0">>, <<"other", "1.0.0">>,
                 <<"dep", "not-a-version">>} :
          EditOrPanic("add_dependencies", d, add_dependencies(choco, d[1], d[2]))

SetTags ==
    /\ CanEdit
    /\ \E tags \in TagLists : Edit("set_tags", tags, set_tags(choco, tags))

SetFiles ==
    /\ CanEdit
    /\ \E files \in FileLists : Edit("set_files", files, set_files(choco, files))

SetDependencies ==
    /\ CanEdit
    /\ \E dependencies \in DependencyLists :
          EditOrPanic("set_dependencies", dependencies,
                      set_dependencies(choco, dependencies))

(* generate(work_dir) on the override record, by a build for Windows or not. *)
Generate ==
    /\ CanEdit
    /\ \E windows \in BOOLEAN :
          LET run == generate(choco, disk, windows)
          IN  /\ disk' = run.disk
              /\ Returned("generate", windows, run.result)
    /\ pre' = choco
    /\ UNCHANGED <<pkg, choco, orig, outcome>>

NextChoco ==
    /\ Len(trace) < MaxEdits
    /\ \/ WithIdOf(ChocoIds) \/ WithAuthors
       \/ SetTitle \/ SetCopyright \/ SetReleaseNotes \/ SetDescriptionStr
       \/ AddTag \/ AddFile \/ AddDependencies
       \/ SetTags \/ SetFiles \/ SetDependencies
       \/ UpdateFrom \/ ResetSame \/ Generate

ChocoSpec == InitChoco /\ [][NextChoco]_vars

(* ------------------------------ claims -------------------------------- *)

UPDATE == "update_from"
RESET == "reset_same"

(* The last call was `name` and it returned. *)
After(name) == trace # << >> /\ Last(trace) = name /\ outcome = "ok"

(* The fields update_from fills in are all unset or empty. *)
NothingReconciled(o) ==
    /\ o.id = << >>
    /\ o.maintainers = << >>
    /\ IsNone(o.summary)
    /\ IsNone(o.project_url)
    /\ IsNone(o.project_source_url)
    /\ IsNone(o.package_source_url)
    /\ IsNone(o.license_url)

(* C1: update_from is idempotent: on the record a call of update_from(G)   *)
(* left, another update_from(G) returns and changes no field.              *)
C1_UpdateFromIdempotent ==
    After(UPDATE) =>
        /\ ~update_from(choco, pkg).panicked
        /\ update_from(choco, pkg).value = choco

C1_Witness ==
    /\ trace = <<UPDATE, UPDATE>>
    /\ outcome = "ok"
    /\ orig.tags # << >>
    /\ pre # orig
    /\ pre.tags # orig.tags
    /\ choco = pre

(* C2: partial inverse: from an override record whose reconcilable fields  *)
(* are all unset or empty, update_from(G) then reset_same(G) leaves every  *)
(* one of them unset or empty again.                                       *)
C2_ResetUndoesUpdate ==
    (trace = <<UPDATE, RESET>> /\ NothingReconciled(orig)) => NothingReconciled(choco)

C2_Witness ==
    /\ trace = <<UPDATE, RESET>>
    /\ NothingReconciled(orig)
    /\ pre.id # << >>
    /\ pre.maintainers # << >>
    /\ IsSome(pre.project_url)
    /\ IsSome(pre.license_url)
    /\ IsSome(pre.project_source_url)
    /\ NothingReconciled(choco)

(* C3: tag bootstrap uniqueness: after update_from(G), a non-empty         *)
(* override identifier has its lowercase form in the tags list exactly     *)
(* once, at index 0.                                                       *)
C3_TagBootstrapUnique ==
    (After(UPDATE) /\ choco.id # << >>) =>
        /\ Len(choco.tags) >= 1
        /\ choco.tags[1] = ToLowercase(choco.id)
        /\ Count(choco.tags, ToLowercase(choco.id)) = 1

Derived(self, from) ==
    update_from([self EXCEPT !.id = << >>, !.maintainers = << >>,
                             !.summary = None, !.project_url = None,
                             !.project_source_url = None,
                             !.package_source_url = None,
                             !.license_url = None], from).value

(* C5: reset_same(G) clears a reconcilable field if and only if its value  *)
(* equals the one update_from would derive from G, and keeps any other     *)
(* value, one where update_from derives nothing included.                  *)
C5_ResetClearsExactlyDerived ==
    After(RESET) =>
        LET d == Derived(pre, pkg)
            Expect(f, unset) == IF pre[f] = d[f] THEN unset ELSE pre[f]
        IN  /\ choco.id = Expect("id", << >>)
            /\ choco.maintainers = Expect("maintainers", << >>)
            /\ choco.summary = Expect("summary", None)
            /\ choco.project_url = Expect("project_url", None)
            /\ choco.project_source_url = Expect("project_source_url", None)
            /\ choco.package_source_url = Expect("package_source_url", None)
            /\ choco.license_url = Expect("license_url", None)

(* The fields of the override record that update_from does not touch. *)
UntouchedFields ==
    {"lowercase_id", "title", "copyright", "version", "authors", "description",
     "require_license_acceptance", "documentation_url", "issues_url",
     "release_notes", "dependencies", "files"}

(* C6: a call of reset_same(G) changes none of the override fields that    *)
(* update_from does not touch, and leaves G as it was.                     *)
C6_ResetSameFrame ==
    [][(trace' # trace /\ Last(trace') = RESET) =>
          /\ \A f \in UntouchedFields : choco'[f] = choco[f]
          /\ pkg' = pkg]_vars

C6_Witness ==
    /\ After(RESET)
    /\ ~pre.lowercase_id
    /\ pre.id # << >>
    /\ choco.id = << >>
    /\ ~choco.lowercase_id

(* C7 as claimed: an unset project (package) source URL becomes what G's   *)
(* accessor yields, the placeholder when G has none.                       *)
C7_SourceUrlsFromAccessor ==
    After(UPDATE) =>
        /\ IsNone(pre.project_source_url) =>
               choco.project_source_url = Some(project_source_url(pkg))
        /\ IsNone(pre.package_source_url) =>
               choco.package_source_url = Some(package_source_url(pkg))

(* C7, amended: an unset project (package) source URL becomes G's stored   *)
(* project (package) source URL, and stays unset when G has none.          *)
C7_SourceUrlsFromField ==
    After(UPDATE) =>
        /\ IsNone(pre.project_source_url) =>
               choco.project_source_url = pkg.project_source_url
        /\ IsNone(pre.package_source_url) =>
               choco.package_source_url = pkg.package_source_url

C7_Witness ==
    /\ After(UPDATE)
    /\ IsNone(pre.project_source_url)
    /\ IsNone(pkg.project_source_url)
    /\ IsNone(choco.project_source_url)
    /\ IsNone(pre.package_source_url)
    /\ IsSome(pkg.package_source_url)
    /\ choco.package_source_url = pkg.package_source_url

(* C8: after update_from(G) the override's project URL is set: to the one  *)
(* it held at entry, else to G's project URL.                              *)
C8_ProjectUrlAlwaysSet ==
    After(UPDATE) =>
        /\ IsSome(choco.project_url)
        /\ choco.project_url =
               IF IsSome(pre.project_url) THEN pre.project_url
               ELSE Some(pkg.project_url)

C8_Witness ==
    /\ After(UPDATE)
    /\ IsNone(pre.project_url)
    /\ pkg.project_url = PlaceholderUrl
    /\ choco.project_url = Some(PlaceholderUrl)

(* C9: with the override's license URL unset at entry, update_from(G)      *)
(* sets it to the URL license_url() returns for G's license, and leaves it *)
(* unset when license_url() returns none.                                  *)
C9_LicenseUrlFromLicense ==
    (After(UPDATE) /\ IsNone(pre.license_url)) =>
        choco.license_url = LicenseUrl(pkg.license)

C9_Witness ==
    /\ After(UPDATE)
    /\ IsNone(pre.license_url)
    /\ pkg.license.kind = "Expression"
    /\ choco.license_url = Some(MitUrl)

(* C10: reconciliation never fails: every call of update_from and          *)
(* reset_same returns, leaving an override record with all its fields.     *)
C10_ReconciliationNeverFails ==
    /\ outcome = "ok"
    /\ DOMAIN choco = DOMAIN DefaultChocolateyMetadata

C10_Witness ==
    /\ trace = <<UPDATE, RESET>>
    /\ outcome = "ok"
    /\ pkg.license = LicenseExpression("invalid-spdix")
    /\ IsNone(orig.license_url)

(* ------------------- claims on the rule engine ------------------------ *)

VALIDATE == "validate_metadata"

(* The last call was `name`, whether it returned or aborted. *)
Called(name) == trace # << >> /\ Last(trace) = name

\* Every rule, in the order run_validation lists them.
AllRules == GenericRules \o ChocolateyRules

(* The rules that apply at rule_kind and report a diagnostic on data. *)
FailingRules(data, rule_kind) ==
    {r \in {AllRules[i] : i \in 1..Len(AllRules)} :
        should_validate(r, rule_kind) /\ validate(r, data) # << >>}

(* C11: validate_metadata(record, level) runs every rule that applies at   *)
(* the level without stopping at a failure: it returns success exactly     *)
(* when no applicable rule reports a diagnostic, and else a non-empty      *)
(* failure list holding one diagnostic per failing applicable rule and     *)
(* nothing else.                                                           *)
C11_ValidateRunsEveryRule ==
    After(VALIDATE) =>
        LET failing == FailingRules(pkg, input)
        IN  /\ result.ok <=> failing = {}
            /\ result.ok => result.msgs = << >>
            /\ ~result.ok => result.msgs # << >>
            /\ Len(result.msgs) = Cardinality(failing)
            /\ \A r \in failing : Count(result.msgs, validate(r, pkg)[1]) = 1
            /\ \A j \in 1..Len(result.msgs) :
                   \E r \in failing : result.msgs[j] = validate(r, pkg)[1]

C11_Witness ==
    /\ After(VALIDATE)
    /\ input = Community
    /\ ~result.ok
    /\ Len(result.msgs) = 3
    /\ result.msgs[3].message_type = Note

\* The diagnostics in the order the rules are listed.
DiagnosticOrder ==
    <<IdNotEmptyMessage, MaintainersNotEmptyMessage,
      ProjectUrlNotLocalPathMessage, IdIsLowercaseMessage>>

Rank(msg) == CHOOSE k \in 1..Len(DiagnosticOrder) : DiagnosticOrder[k] = msg

(* C12: the diagnostics come in a fixed order: identifier, maintainers,    *)
(* project URL, then the Chocolatey rules, a generic diagnostic before any *)
(* manager-specific one; an empty identifier, no maintainers and a file:// *)
(* project URL at Core give exactly the three Requirement diagnostics      *)
(* identifier, maintainers, project URL in that order.                     *)
C12_DiagnosticOrder ==
    After(VALIDATE) =>
        /\ \A i \in 1..Len(result.msgs) : Contains(DiagnosticOrder, result.msgs[i])
        /\ \A i, j \in 1..Len(result.msgs) :
               i < j => /\ Rank(result.msgs[i]) < Rank(result.msgs[j])
                        /\ result.msgs[j].package_manager = "" =>
                               result.msgs[i].package_manager = ""
        /\ (/\ pkg.id = << >>
            /\ pkg.maintainers = << >>
            /\ pkg.project_url = FileUrl
            /\ input = Core) =>
               /\ result.msgs = <<IdNotEmptyMessage, MaintainersNotEmptyMessage,
                                  ProjectUrlNotLocalPathMessage>>
               /\ \A i \in 1..3 : result.msgs[i].message_type = Requirement

C12_Witness ==
    /\ After(VALIDATE)
    /\ input = Core
    /\ pkg.id = << >>
    /\ pkg.maintainers = << >>
    /\ pkg.project_url = FileUrl
    /\ Len(result.msgs) = 3

(* C13: validation monotonicity: every diagnostic validate_metadata gives  *)
(* at Core it also gives at Community for the same record, so success at   *)
(* Community implies success at Core.                                      *)
C13_ValidationMonotone ==
    (After(VALIDATE) /\ input = Core) =>
        LET community == validate_metadata(pkg, Community)
        IN  /\ \A i \in 1..Len(result.msgs) :
                   Contains(community.msgs, result.msgs[i])
            /\ community.ok => result.ok

C13_Witness ==
    /\ After(VALIDATE)
    /\ input = Core
    /\ ~result.ok
    /\ Len(validate_metadata(pkg, Community).msgs) > Len(result.msgs)

(* C14: the identifier-lowercase rule runs at Community only: a Note       *)
(* labelled choco is reported exactly when the level is Community and the  *)
(* identifier holds an uppercase character; validation at Core returns no  *)
(* Note and no manager-labelled diagnostic.                                *)
C14_LowercaseRuleCommunityOnly ==
    After(VALIDATE) =>
        LET labelled == {i \in 1..Len(result.msgs) :
                            \/ result.msgs[i].message_type = Note
                            \/ result.msgs[i].package_manager # ""}
        IN  /\ labelled # {} <=>
                   /\ input = Community
                   /\ \E k \in 1..Len(pkg.id) : pkg.id[k] \in {"G", "C"}
            /\ \A i \in labelled :
                   /\ result.msgs[i].message_type = Note
                   /\ result.msgs[i].package_manager = "choco"
            /\ input = Core => labelled = {}

C14_Witness ==
    /\ After(VALIDATE)
    /\ input = Community
    /\ pkg.id = <<"G", " ", "c">>
    /\ result.msgs = <<IdIsLowercaseMessage>>

\* The diagnostics of a result that carry the given message text.
WithMessage(msgs, text) == {i \in 1..Len(msgs) : msgs[i].message = text}

(* C15: at every level the identifier rule reports a Requirement without   *)
(* manager label exactly when the identifier is empty once its leading and *)
(* trailing whitespace is removed.                                         *)
C15_IdNotEmptyRule ==
    After(VALIDATE) =>
        LET found == WithMessage(result.msgs, "A identifier can not be empty!")
        IN  /\ found # {} <=>
                   \A k \in 1..Len(pkg.id) : pkg.id[k] \in {" ", "\n"}
            /\ \A i \in found :
                   /\ result.msgs[i].message_type = Requirement
                   /\ result.msgs[i].package_manager = ""

C15_Witness ==
    /\ After(VALIDATE)
    /\ input = Community
    /\ pkg.id = <<" ", "\n">>
    /\ result.msgs[1] = IdNotEmptyMessage

(* C16: at every level the maintainers rule reports a Requirement without  *)
(* manager label exactly when the maintainers list holds no non-empty      *)
(* string: it is empty or all its entries are empty strings.               *)
C16_MaintainersNotEmptyRule ==
    After(VALIDATE) =>
        LET found == WithMessage(result.msgs,
                        "At least 1 maintainer must be specified for the package!")
        IN  /\ found # {} <=>
                   ~ \E k \in 1..Len(pkg.maintainers) : pkg.maintainers[k] # ""
            /\ \A i \in found :
                   /\ result.msgs[i].message_type = Requirement
                   /\ result.msgs[i].package_manager = ""

C16_Witness ==
    /\ After(VALIDATE)
    /\ input = Core
    /\ pkg.maintainers = <<"", "">>
    /\ Contains(result.msgs, MaintainersNotEmptyMessage)

(* ------------ claims on the constructors and the setters -------------- *)

(* Every field of the override record but `field` has its default value. *)
DefaultBut(record, fields) ==
    /\ DOMAIN record = DOMAIN DefaultChocolateyMetadata
    /\ \A f \in DOMAIN record \ fields : record[f] = DefaultChocolateyMetadata[f]

(* C17: fail-fast on empty authors: with_authors on an empty list aborts   *)
(* and yields no record; on a non-empty list it returns a record whose     *)
(* authors are that list, in order, every other field being the default.   *)
C17_WithAuthorsFailFast ==
    Called("with_authors") =>
        IF input = << >>
        THEN outcome = "panic" /\ IsNone(result)
        ELSE /\ outcome = "ok"
             /\ result = Some(choco)
             /\ choco.authors = input
             /\ DefaultBut(choco, {"authors"})

C17_Witness ==
    /\ trace = <<"with_authors", "with_authors">>
    /\ choco.authors = <<"b", "a">>
    /\ input = << >>
    /\ outcome = "panic"

(* C18: with_id(id, lowercase) returns a record whose identifier is id     *)
(* with each space replaced by a dash, lowercased exactly when lowercase   *)
(* is true, whose lowercase_id is the flag, whose tags are the single      *)
(* entry made of the lowercased dashed identifier, and whose other fields  *)
(* are the defaults.                                                       *)
C18_WithId ==
    Called("with_id") =>
        LET id == input.id
            Dashed(k, lower) ==
                IF id[k] = " " THEN "-"
                ELSE IF lower THEN LowerChar(id[k]) ELSE id[k]
        IN  /\ result = choco
            /\ choco.id = [k \in 1..Len(id) |-> Dashed(k, input.lowercase)]
            /\ choco.lowercase_id = input.lowercase
            /\ choco.tags = << [k \in 1..Len(id) |-> Dashed(k, TRUE)] >>
            /\ DefaultBut(choco, {"id", "lowercase_id", "tags"})

C18_Witness ==
    /\ Called("with_id")
    /\ input = [id |-> <<"G", " ", "c">>, lowercase |-> FALSE]
    /\ choco.id = <<"G", "-", "c">>
    /\ choco.tags = << <<"g", "-", "c">> >>
    /\ ~choco.lowercase_id

(* C19: the identifier of the generic record never changes after           *)
(* construction: no setter call, successful or failing, and no update_from,*)
(* reset_same or validation call changes it.                               *)
C19_GenericIdNeverChanges ==
    [][pkg'.id = pkg.id]_vars

C19_Witness ==
    /\ trace = <<"set_project_source_url", "update_from", "validate_metadata">>
    /\ IsNone(pkg.project_source_url)
    /\ pkg.id = <<"G", " ", "c">>
    /\ choco.id = <<"g", "-", "c">>

(* C20: set_project_source_url and set_package_source_url given a string   *)
(* that is not a valid URL return a parse error and leave the generic      *)
(* record as it was; given a valid URL they set that one field to it.      *)
C20_SourceUrlSetters ==
    [][(trace' # trace
        /\ Last(trace') \in {"set_project_source_url", "set_package_source_url"}) =>
          LET field == IF Last(trace') = "set_project_source_url"
                       THEN "project_source_url" ELSE "package_source_url"
          IN  IF UrlParse(input').ok
              THEN /\ result' = "Ok"
                   /\ pkg' = [pkg EXCEPT ![field] = Some(UrlParse(input').url)]
              ELSE /\ result' = "Err"
                   /\ pkg' = pkg]_vars

C20_Witness ==
    /\ trace = <<"set_project_source_url", "set_package_source_url",
                 "set_project_source_url">>
    /\ result = "Err"
    /\ input = "not a url"
    /\ pkg.project_source_url = Some(GithubUrl)
    /\ pkg.package_source_url = Some(PlaceholderUrl)

LastPerKey(list) ==
    {list[i] : i \in {j \in 1..Len(list) :
                        \A k \in (j + 1)..Len(list) : list[k][1] # list[j][1]}}

(* The keys of a mapping are unique. *)
UniqueKeys(map) == \A p, q \in map : p[1] = q[1] => p = q

(* C22 as claimed: add_dependencies given a version that does not parse    *)
(* returns an error to the caller, without aborting, and leaves the        *)
(* dependencies as they were; given one that parses, the mapping gains or  *)
(* overwrites that identifier's entry, its keys staying unique.            *)
C22_AddDependencyRecoverable ==
    Called("add_dependencies") =>
        /\ outcome = "ok"
        /\ IF VersionParse(input[2]).ok
           THEN /\ choco.dependencies =
                       {p \in pre.dependencies : p[1] # input[1]}
                       \cup {<<input[1], VersionParse(input[2]).version>>}
                /\ UniqueKeys(choco.dependencies)
           ELSE choco.dependencies = pre.dependencies

(* C23: set_dependencies, set_files and set_tags replace the collection:   *)
(* when the call returns, the collection holds the given entries (tags in  *)
(* the given order, mappings with the last value given per key) whatever   *)
(* it held before, and the same call again changes nothing.                *)
C23_SettersReplaceCollection ==
    /\ After("set_tags") =>
           /\ choco = [pre EXCEPT !.tags = input]
           /\ set_tags(choco, input) = choco
    /\ After("set_files") =>
           /\ choco = [pre EXCEPT !.files = LastPerKey(input)]
           /\ UniqueKeys(choco.files)
           /\ set_files(choco, input) = choco
    /\ After("set_dependencies") =>
           /\ choco = [pre EXCEPT !.dependencies = LastPerKey(input)]
           /\ UniqueKeys(choco.dependencies)
           /\ set_dependencies(choco, input).value = choco

C23_Witness ==
    /\ trace = <<"add_file", "set_files">>
    /\ pre.files = {<<ToolsSlash, <<"x">>>>}
    /\ input = << <<BinSource, <<"x">>>>, <<BinSource, ToolsTarget>> >>
    /\ choco.files = {<<BinSource, ToolsTarget>>}

(* The manifest generate wrote for the override record. *)
Manifest ==
    LET name == choco.id \o <<".nuspec">>
    IN  (CHOOSE f \in disk.files : f[1] = choco.id /\ f[2] = name)[3]

(* C24 as claimed: for every files mapping, the manifest generate writes   *)
(* holds exactly one file element whose source is the default tools        *)
(* source, and its target is tools.                                        *)
C24_DefaultToolsOnce ==
    (Called("generate") /\ result = "Ok") =>
        LET defaults == {e \in Manifest.files : e.src = DEFAULT_FILE(input)}
        IN  /\ Cardinality(defaults) = 1
            /\ \A e \in defaults : e.target = ToolsTarget

(* C25: generate on an override record whose identifier is empty or made   *)
(* of whitespace returns NotFound and does nothing to the work directory:  *)
(* no directory is created or cleaned, no manifest written.                *)
C25_GenerateEmptyIdNoAction ==
    [][(/\ trace' # trace
        /\ Last(trace') = "generate"
        /\ \A k \in 1..Len(choco.id) : choco.id[k] \in {" ", "\n"}) =>
          /\ result' = "NotFound"
          /\ disk' = disk]_vars

C25_Witness ==
    /\ Called("generate")
    /\ choco.id = <<"\n">>
    /\ result = "NotFound"
    /\ disk = StaleDisk

(* C29: canonical identifier: in every override record the constructors,   *)
(* setters, update_from and reset_same lead to, the identifier holds no    *)
(* space, and no uppercase character when lowercase_id is true.            *)
C29_CanonicalIdentifier ==
    /\ \A k \in 1..Len(choco.id) : choco.id[k] # " "
    /\ choco.lowercase_id => \A k \in 1..Len(choco.id) : choco.id[k] \notin {"G", "C"}

C29_Witness ==
    /\ trace = <<"with_authors", "update_from">>
    /\ pkg.id = <<"G", " ", "c">>
    /\ choco.lowercase_id
    /\ choco.id = <<"g", "-", "c">>

(* --------------------- claims on reset and reload --------------------- *)

(* C26: reset_same(G) removes from the tags every element equal to the     *)
(* lowercase form of the identifier the override held before the call, at  *)
(* whatever position and whether or not the identifier is cleared, keeps   *)
(* the other tags in their order, and clears the identifier when it equals *)
(* generate_identifier(G.id, lowercase_id).                                *)
C26_ResetRemovesIdTag ==
    After(RESET) =>
        /\ \A k \in 1..Len(choco.tags) : choco.tags[k] # ToLowercase(pre.id)
        /\ choco.tags = SelectSeq(pre.tags, LAMBDA t : t # ToLowercase(pre.id))
        /\ pre.id = generate_identifier(pkg.id, pre.lowercase_id) => choco.id = << >>

C26_Witness ==
    /\ After(RESET)
    /\ Len(pre.tags) = 2
    /\ pre.tags[2] = ToLowercase(pre.id)
    /\ pre.tags[1] # pre.tags[2]
    /\ pre.id # << >>
    /\ choco.id = << >>
    /\ choco.tags = <<pre.tags[1]>>

(* C27 as claimed: with R = update_from(O, G), reset_same(G) applied to R  *)
(* and then update_from(G) again yields a record equal to R in every       *)
(* field, tag order and user-set URLs included.                            *)
C27_PersistReloadLossless ==
    trace = <<UPDATE, RESET>> => update_from(choco, pkg).value = pre

(* C28 as claimed: reset_same(G) applied twice gives the record that       *)
(* applying it once gives, whatever the tags list holds.                   *)
C28_ResetSameIdempotent ==
    After(RESET) => reset_same(choco, pkg).value = choco

(* C30: validation guards packaging: when validate_metadata(G, Core)       *)
(* reports success, update_from(G) on a default override record yields an  *)
(* identifier that is not empty once trimmed, and generate on that record  *)
(* does not return the empty-identifier error.                             *)
C30_ValidationGuardsPackaging ==
    (After(VALIDATE) /\ input = Core /\ result.ok) =>
        LET run == update_from(DefaultChocolateyMetadata, pkg)
        IN  /\ ~run.panicked
            /\ \E k \in 1..Len(run.value.id) : run.value.id[k] \notin {" ", "\n"}
            /\ \A windows \in BOOLEAN :
                   generate(run.value, disk, windows).result # "NotFound"

C30_Witness ==
    /\ After(VALIDATE)
    /\ input = Core
    /\ result.ok
    /\ pkg.id = <<" ", "c">>
    /\ update_from(DefaultChocolateyMetadata, pkg).value.id = <<"-", "c">>
    /\ generate(update_from(DefaultChocolateyMetadata, pkg).value, disk, FALSE).result = "Ok"

====
